---- MODULE Spec2Model ----
(***************************************************************************)
(* MarkItDown API (src/main.py): the conversion waterfall of               *)
(* perform_conversion.  A request carries (contents, filename, mimetype);  *)
(* the engines (MarkItDown, pandoc, antiword, tesseract) are black boxes   *)
(* whose outcome is chosen when they are invoked.  Every invocation is     *)
(* recorded in the request's `calls`, so that what was invoked, in which   *)
(* order and with which output, can be stated over states.                 *)
(*                                                                         *)
(* Engine tags: the code's "markitdown", "pandoc", "antiword" and "ocr"    *)
(* are the specification's primary, format-fallback, legacy-word-fallback  *)
(* and image-text-fallback.                                                *)
(***************************************************************************)
EXTENDS Integers, Sequences, FiniteSets, TLC

VARIABLES
    MAX_FILE_SIZE,  \* process-wide limit, read from the environment at start
    API_KEY,        \* process-wide access key, read from the environment at start
    engines,        \* what each engine can answer for an input of a given length
    files,          \* the temporary files on disk: name -> creator and data
    req             \* per request: the endpoint's and perform_conversion's frame

vars == <<MAX_FILE_SIZE, API_KEY, engines, files, req>>

----------------------------------------------------------------------------
(* Bounds of the model.                                                     *)

\* Largest configured MAX_FILE_SIZE; contents are 0..MaxFileSize+1 bytes long.
MaxFileSize == 2

\* Number of distinct names the temporary-file generator can hand out.
NumPaths == 2

\* The threshold of line 148: len(markdown) < 10.
MinUsableLen == 10

\* The requests of the run.
Reqs == DOMAIN req

Paths == 1..NumPaths

----------------------------------------------------------------------------
(* Strings.  TLC treats a string as a sequence of one-character strings.    *)

Whitespace == {" ", "\t", "\n", "\r", "\f"}

CharAt(s, i) == SubSeq(s, i, i)

\* str.strip(): drop leading and trailing whitespace.
Strip(s) ==
    LET n == Len(s)
        nonws == {i \in 1..n : CharAt(s, i) \notin Whitespace}
    IN  IF nonws = {} THEN ""
        ELSE SubSeq(s, CHOOSE i \in nonws : \A j \in nonws : i <= j,
                       CHOOSE i \in nonws : \A j \in nonws : i >= j)

\* str.startswith(prefix)
StartsWith(s, p) == Len(s) >= Len(p) /\ SubSeq(s, 1, Len(p)) = p

UpperChars == "ABCDEFGHIJKLMNOPQRSTUVWXYZ"
LowerChars == "abcdefghijklmnopqrstuvwxyz"

LowerChar(c) ==
    IF \E i \in 1..Len(UpperChars) : CharAt(UpperChars, i) = c
    THEN CharAt(LowerChars, CHOOSE i \in 1..Len(UpperChars) : CharAt(UpperChars, i) = c)
    ELSE c

\* str.lower()
RECURSIVE Lower(_)
Lower(s) == IF s = "" THEN "" ELSE LowerChar(CharAt(s, 1)) \o Lower(SubSeq(s, 2, Len(s)))

\* str.rfind(c) as a 1-based index, 0 when c does not occur.
RFind(s, c) ==
    LET at == {i \in 1..Len(s) : CharAt(s, i) = c}
    IN  IF at = {} THEN 0 ELSE CHOOSE i \in at : \A j \in at : i >= j

\* os.path.splitext(p)[1]: from the last dot of the last path component,
\* unless that component has only dots before it (".doc" has no extension).
SplitextExt(p) ==
    LET sepIndex == RFind(p, "/")
        dotIndex == RFind(p, ".")
    IN  IF /\ dotIndex > sepIndex
           /\ \E i \in (sepIndex + 1)..(dotIndex - 1) : CharAt(p, i) # "."
        THEN SubSeq(p, dotIndex, Len(p))
        ELSE ""

\* mimetypes.guess_extension(mimetype); "" stands for None.
GuessExtension(mimetype) ==
    CASE mimetype = "application/msword" -> ".doc"
      [] mimetype = "image/png"          -> ".png"
      [] mimetype = "text/plain"         -> ".txt"
      [] OTHER                           -> ""

----------------------------------------------------------------------------
(* Classification: lines 40-45 and 107-111.                                 *)

get_extension(filename, mimetype) ==
    LET ext == SplitextExt(filename)
    IN  IF ext = "" /\ mimetype # "" THEN GuessExtension(mimetype) ELSE ext

Suffix(ext) ==
    IF StartsWith(ext, ".") THEN ext ELSE IF ext # "" THEN "." \o ext ELSE ""

ImageExts == {".png", ".jpg", ".jpeg", ".tiff", ".bmp", ".gif"}

IsImage(mimetype, ext) == StartsWith(mimetype, "image/") \/ ext \in ImageExts

IsLegacyWordNoMime(mimetype, ext) == ext = ".doc"

IsLegacyWord(mimetype, ext) == ext = ".doc" \/ mimetype = "application/msword"

----------------------------------------------------------------------------
(* The inputs and the engines' possible outcomes.                           *)

Bytes(n) == [i \in 1..n |-> 0]

Contents == {Bytes(n) : n \in 0..(MaxFileSize + 1)}

Filenames == {"a.doc", "A.DOC", "a.png", "a.txt", "a", ".doc"}

Mimetypes == {"application/msword", "image/png", "image/x", "text/plain", ""}

\* Raw engine outputs: empty, whitespace only, short, 9 characters once
\* trimmed (11 raw), exactly 10 characters once trimmed.
Texts == {"", " \n", " hi\n", "\t123456789 ", "0123456789\n"}

OcrTexts == {"", "\n ", " scanned\n"}

\* md.convert(tmp_path): a result with text_content, a falsy result, or an
\* exception.
PrimaryOutcomes ==
    [kind : {"ok"}, out : Texts] \cup [kind : {"none", "raise"}, out : {""}]

\* subprocess.run(...): exit code 0 with stdout, a non-zero exit code with
\* stdout, or an exception (the binary is missing, stdout does not decode).
SubprocessOutcomes ==
    [kind : {"exit0"}, out : Texts]
        \cup [kind : {"nonzero"}, out : {"0123456789\n"}]
        \cup [kind : {"raise"}, out : {""}]

\* Image.open + pytesseract.image_to_string: text, or an exception.
OcrOutcomes == [kind : {"ok"}, out : OcrTexts] \cup [kind : {"raise"}, out : {""}]

Engines == {"markitdown", "pandoc_doc", "pandoc_auto", "antiword", "ocr"}

AllOutcomes(e) ==
    CASE e = "markitdown" -> PrimaryOutcomes
      [] e = "ocr"        -> OcrOutcomes
      [] OTHER            -> SubprocessOutcomes

Lengths == 0..(MaxFileSize + 1)

\* Engines about which nothing is known: any outcome at every invocation.
AnyOutcome == [e \in Engines |-> [n \in Lengths |-> AllOutcomes(e)]]

\* Engines that are functions of their input, told apart by its length: an
\* input of length 1 is a document every engine reads in its own way, one of
\* length 2 makes every engine raise, a longer one is read by pandoc only.
ByLength ==
    [e \in Engines |-> [n \in Lengths |->
        CASE e = "markitdown" ->
                 IF n = 1 THEN {[kind |-> "ok", out |-> " hi\n"]}
                 ELSE IF n = 2 THEN {[kind |-> "raise", out |-> ""]}
                 ELSE {[kind |-> "none", out |-> ""]}
          [] e = "pandoc_doc" ->
                 IF n = 1 THEN {[kind |-> "nonzero", out |-> "0123456789\n"]}
                 ELSE IF n = 2 THEN {[kind |-> "raise", out |-> ""]}
                 ELSE {[kind |-> "exit0", out |-> "\t123456789 "]}
          [] e = "pandoc_auto" ->
                 IF n = 1 THEN {[kind |-> "exit0", out |-> ""]}
                 ELSE {[kind |-> "raise", out |-> ""]}
          [] e = "antiword" ->
                 IF n = 1 THEN {[kind |-> "exit0", out |-> " hi\n"]}
                 ELSE {[kind |-> "raise", out |-> ""]}
          [] e = "ocr" ->
                 IF n = 1 THEN {[kind |-> "ok", out |-> " scanned\n"]}
                 ELSE IF n = 2 THEN {[kind |-> "raise", out |-> ""]}
                 ELSE {[kind |-> "ok", out |-> ""]}]]

\* One engine invocation: what the engine did (kind, out) and the text the
\* code took from it: the stripped output of a result or of an exit code 0,
\* nothing otherwise.
Call(engine, o) ==
    [engine |-> engine, kind |-> o.kind, out |-> o.out,
     text |-> IF o.kind \in {"ok", "exit0"} THEN Strip(o.out) ELSE ""]

----------------------------------------------------------------------------
(* Responses.                                                               *)

NoResponse ==
    [kind |-> "none", status |-> 0, filename |-> "", content_type |-> "",
     size_bytes |-> 0, markdown |-> "", method |-> ""]

\* raise HTTPException(status, ...)
HTTPError(status) == [NoResponse EXCEPT !.kind = "error", !.status = status]

\* An exception that leaves perform_conversion unhandled.
Unhandled == [NoResponse EXCEPT !.kind = "unhandled", !.status = 500]

\* Lines 175-181.
Result(f) ==
    [kind |-> "result", status |-> 200, filename |-> f.filename,
     content_type |-> f.mimetype, size_bytes |-> Len(f.contents),
     markdown |-> f.markdown, method |-> f.method]

\* An optional string: None, or a string.
None == [set |-> FALSE, value |-> ""]

Some(s) == [set |-> TRUE, value |-> s]

\* Python's truth value of an optional string.
Truthy(k) == k.set /\ k.value # ""

\* os.getenv("API_KEY"): unset, set to the empty string, or a key.
ApiKeys == {None, Some(""), Some("k1")}

\* The X-API-Key header: absent, or a string.
RequestKeys == {None, Some(""), Some("k1"), Some("k2")}

Idle ==
    [pc |-> "idle", endpoint |-> "", x_api_key |-> None,
     contents |-> <<>>, filename |-> "", mimetype |-> "",
     ext |-> "", suffix |-> "", is_image |-> FALSE, is_legacy_word |-> FALSE,
     markdown |-> "", method |-> "", tmp_file |-> 0, tmp_path |-> 0,
     removes |-> 0, calls |-> <<>>,
     fault |-> "none", faultCalls |-> 0, raising |-> FALSE,
     response |-> NoResponse]

\* One request, the service started without API_KEY.
Init ==
    /\ MAX_FILE_SIZE \in 0..MaxFileSize
    /\ API_KEY = None
    /\ engines = AnyOutcome
    /\ files = <<>>
    /\ req = [r \in {1} |-> Idle]

----------------------------------------------------------------------------
(* perform_conversion, lines 96-181.  pc names the line about to run.       *)

\* Line 98.
IsEmptyNever(contents) == Len(contents) < 0

IsEmpty(contents) == Len(contents) = 0

\* Line 101.
TooLargeInclusive(contents, max) == Len(contents) >= max

TooLarge(contents, max) == Len(contents) > max

\* Line 132.
NeedsPandocAlways(markdown) == TRUE

NeedsPandoc(markdown) == markdown = ""

\* Line 140.
NeedsAntiwordAnyText(markdown, is_legacy_word) == is_legacy_word

NeedsAntiwordAnyInput(markdown, is_legacy_word) == markdown = ""

NeedsAntiword(markdown, is_legacy_word) == markdown = "" /\ is_legacy_word

\* Line 148.
NeedsOcrInclusive(is_image, markdown) ==
    is_image /\ (markdown = "" \/ Len(markdown) <= MinUsableLen)

NeedsOcrAnyInput(is_image, markdown) ==
    markdown = "" \/ Len(markdown) < MinUsableLen

NeedsOcr(is_image, markdown) ==
    is_image /\ (markdown = "" \/ Len(markdown) < MinUsableLen)

\* Lines 150-152.
ApplyOcrOnlyIfEmpty(f, ocr_text) ==
    IF ocr_text # "" /\ f.markdown = ""
    THEN [f EXCEPT !.markdown = ocr_text, !.method = "ocr"]
    ELSE f

ApplyOcrUnchecked(f, ocr_text) == [f EXCEPT !.markdown = ocr_text, !.method = "ocr"]

ApplyOcr(f, ocr_text) ==
    IF ocr_text # "" THEN [f EXCEPT !.markdown = ocr_text, !.method = "ocr"] ELSE f

\* An exception raised at line `at`, outside every inner try: control goes to
\* the handler of line 154.
Raise(f, at) ==
    [f EXCEPT !.pc = "l154", !.fault = at, !.faultCalls = Len(f.calls)]

\* Lines 122-129: the outcome of md.convert(tmp_path).
PrimaryStepNoCatch(f, o) ==
    LET g == [f EXCEPT !.calls = Append(@, Call("markitdown", o))]
        text == IF o.kind = "ok" THEN Strip(o.out) ELSE ""
    IN  IF o.kind = "raise"
        THEN Raise(g, "l124")
        ELSE [g EXCEPT !.pc = "l132", !.markdown = text,
                       !.method = IF text # "" THEN "markitdown" ELSE @]

PrimaryStep(f, o) ==
    LET g == [f EXCEPT !.calls = Append(@, Call("markitdown", o))]
        text == IF o.kind = "ok" THEN Strip(o.out) ELSE ""
    IN  IF o.kind = "raise"
        THEN [g EXCEPT !.pc = "l129"]
        ELSE [g EXCEPT !.pc = "l132", !.markdown = text,
                       !.method = IF text # "" THEN "markitdown" ELSE @]

\* Lines 133-137: run_pandoc_conversion returned `ret`.
PandocReturnNoTag(f, ret) ==
    IF ret # ""
    THEN [f EXCEPT !.markdown = ret, !.pc = "l140"]
    ELSE [f EXCEPT !.markdown = ret, !.pc = "l137"]

PandocReturn(f, ret) ==
    IF ret # ""
    THEN [f EXCEPT !.markdown = ret, !.method = "pandoc", !.pc = "l140"]
    ELSE [f EXCEPT !.markdown = ret, !.pc = "l137"]

\* Lines 141-144: run_antiword_conversion returned `ret`.
AntiwordReturn(f, ret) ==
    IF ret # ""
    THEN [f EXCEPT !.markdown = ret, !.method = "antiword", !.pc = "l144"]
    ELSE [f EXCEPT !.markdown = ret, !.pc = "l148"]

Set(r, f) == req' = [req EXCEPT ![r] = f]

\* The transport hands (contents, filename, mimetype) to perform_conversion.
Request(r) ==
    /\ req[r].pc = "idle"
    /\ \E c \in Contents, fn \in Filenames, mt \in Mimetypes :
           Set(r, [req[r] EXCEPT !.pc = "l98", !.contents = c,
                                 !.filename = fn, !.mimetype = mt])
    /\ UNCHANGED <<MAX_FILE_SIZE, API_KEY, engines, files>>

\* Lines 98-99.
CheckEmpty(r) ==
    /\ req[r].pc = "l98"
    /\ IF IsEmpty(req[r].contents)
       THEN Set(r, [req[r] EXCEPT !.pc = "done", !.response = HTTPError(400)])
       ELSE Set(r, [req[r] EXCEPT !.pc = "l101"])
    /\ UNCHANGED <<MAX_FILE_SIZE, API_KEY, engines, files>>

\* Lines 101-105.
CheckSize(r) ==
    /\ req[r].pc = "l101"
    /\ IF TooLarge(req[r].contents, MAX_FILE_SIZE)
       THEN Set(r, [req[r] EXCEPT !.pc = "done", !.response = HTTPError(413)])
       ELSE Set(r, [req[r] EXCEPT !.pc = "l107"])
    /\ UNCHANGED <<MAX_FILE_SIZE, API_KEY, engines, files>>

\* Lines 107-114.
Classify(r) ==
    /\ req[r].pc = "l107"
    /\ LET ext == Lower(get_extension(req[r].filename, req[r].mimetype))
       IN  Set(r, [req[r] EXCEPT
                     !.pc = "l116",
                     !.ext = ext,
                     !.suffix = Suffix(ext),
                     !.is_image = IsImage(req[r].mimetype, ext),
                     !.is_legacy_word = IsLegacyWord(req[r].mimetype, ext),
                     !.markdown = "",
                     !.method = "unknown"])
    /\ UNCHANGED <<MAX_FILE_SIZE, API_KEY, engines, files>>

\* tempfile.NamedTemporaryFile: a name no existing file has.
ReusedNames == Paths

FreshNames == Paths \ DOMAIN files

\* The disk with file p created by request r and holding `data`.
WriteFile(p, r, data) ==
    [q \in DOMAIN files \cup {p} |->
        IF q = p THEN [owner |-> r, data |-> data] ELSE files[q]]

\* os.remove(p)
RemoveEveryFile(p) == <<>>

RemoveFile(p) == [q \in DOMAIN files \ {p} |-> files[q]]

\* What a reader of file p finds.
ReadFile(p) ==
    IF p \in DOMAIN files
    THEN [exists |-> TRUE, data |-> files[p].data]
    ELSE [exists |-> FALSE, data |-> <<>>]

\* What engine e can do with the input `in`: MarkItDown raises on a missing
\* file, pandoc and antiword exit with a non-zero code.
EngineOutcomes(e, in) ==
    IF in.exists
    THEN engines[e][Len(in.data)]
    ELSE IF e = "markitdown"
         THEN {[kind |-> "raise", out |-> ""]}
         ELSE {[kind |-> "nonzero", out |-> ""]}

\* Lines 116-118: a fresh temporary file is created and the contents are
\* written to it.  Creating or writing can fail, and that exception leaves
\* perform_conversion (line 116 is outside the try of line 120).
MkTemp(r) ==
    /\ req[r].pc = "l116"
    /\ \/ \E p \in FreshNames :
              /\ files' = WriteFile(p, r, req[r].contents)
              /\ Set(r, [req[r] EXCEPT !.pc = "l122", !.tmp_file = p, !.tmp_path = p])
       \/ \E p \in FreshNames :
              /\ files' = WriteFile(p, r, <<>>)
              /\ Set(r, [req[r] EXCEPT !.pc = "done", !.tmp_file = p,
                                       !.fault = "l117", !.response = Unhandled])
       \/ /\ files' = files
          /\ Set(r, [req[r] EXCEPT !.pc = "done", !.fault = "l116",
                                   !.response = Unhandled])
    /\ UNCHANGED <<MAX_FILE_SIZE, API_KEY, engines>>

\* Lines 122-129: step 1, MarkItDown, skipped for legacy Word.
Primary(r) ==
    /\ req[r].pc = "l122"
    /\ \/ /\ req[r].is_legacy_word
          /\ Set(r, [req[r] EXCEPT !.pc = "l132"])
       \/ /\ ~req[r].is_legacy_word
          /\ \E o \in EngineOutcomes("markitdown", ReadFile(req[r].tmp_path)) :
               Set(r, PrimaryStep(req[r], o))
    /\ UNCHANGED <<MAX_FILE_SIZE, API_KEY, engines, files>>

\* Line 129: the handler of step 1 logs the exception.
Log129(r) ==
    /\ req[r].pc = "l129"
    /\ \/ Set(r, [req[r] EXCEPT !.pc = "l132"])
       \/ Set(r, Raise(req[r], "l129"))
    /\ UNCHANGED <<MAX_FILE_SIZE, API_KEY, engines, files>>

\* Lines 132-133 and 76-82: step 2, pandoc --from doc.
PandocDoc(r) ==
    /\ req[r].pc = "l132"
    /\ \/ /\ ~NeedsPandoc(req[r].markdown)
          /\ Set(r, [req[r] EXCEPT !.pc = "l140"])
       \/ /\ NeedsPandoc(req[r].markdown)
          /\ \E o \in EngineOutcomes("pandoc_doc", ReadFile(req[r].tmp_path)) :
               LET g == [req[r] EXCEPT !.calls = Append(@, Call("pandoc_doc", o))]
               IN  Set(r, CASE o.kind = "exit0"   -> PandocReturn(g, Strip(o.out))
                            [] o.kind = "nonzero" -> [g EXCEPT !.pc = "l85"]
                            [] o.kind = "raise"   -> [g EXCEPT !.pc = "l93"])
    /\ UNCHANGED <<MAX_FILE_SIZE, API_KEY, engines, files>>

\* Lines 85-91 and 94: pandoc with format detection, after a non-zero exit.
PandocAuto(r) ==
    /\ req[r].pc = "l85"
    /\ \E o \in EngineOutcomes("pandoc_auto", ReadFile(req[r].tmp_path)) :
         LET g == [req[r] EXCEPT !.calls = Append(@, Call("pandoc_auto", o))]
         IN  Set(r, CASE o.kind = "exit0"   -> PandocReturn(g, Strip(o.out))
                      [] o.kind = "nonzero" -> PandocReturn(g, "")
                      [] o.kind = "raise"   -> [g EXCEPT !.pc = "l93"])
    /\ UNCHANGED <<MAX_FILE_SIZE, API_KEY, engines, files>>

\* Lines 92-94: the handler of run_pandoc_conversion logs, then returns "".
Log93(r) ==
    /\ req[r].pc = "l93"
    /\ \/ Set(r, PandocReturn(req[r], ""))
       \/ Set(r, Raise(req[r], "l93"))
    /\ UNCHANGED <<MAX_FILE_SIZE, API_KEY, engines, files>>

\* Line 137: "Pandoc falhou".
Log137(r) ==
    /\ req[r].pc = "l137"
    /\ \/ Set(r, [req[r] EXCEPT !.pc = "l140"])
       \/ Set(r, Raise(req[r], "l137"))
    /\ UNCHANGED <<MAX_FILE_SIZE, API_KEY, engines, files>>

\* Lines 140-143 and 57-69: step 3, antiword.
Antiword(r) ==
    /\ req[r].pc = "l140"
    /\ \/ /\ ~NeedsAntiword(req[r].markdown, req[r].is_legacy_word)
          /\ Set(r, [req[r] EXCEPT !.pc = "l148"])
       \/ /\ NeedsAntiword(req[r].markdown, req[r].is_legacy_word)
          /\ \E o \in EngineOutcomes("antiword", ReadFile(req[r].tmp_path)) :
               LET g == [req[r] EXCEPT !.calls = Append(@, Call("antiword", o))]
               IN  Set(r, CASE o.kind = "exit0"   -> AntiwordReturn(g, Strip(o.out))
                            [] o.kind = "nonzero" -> AntiwordReturn(g, "")
                            [] o.kind = "raise"   -> [g EXCEPT !.pc = "l68"])
    /\ UNCHANGED <<MAX_FILE_SIZE, API_KEY, engines, files>>

\* Lines 67-69: the handler of run_antiword_conversion logs, then returns "".
Log68(r) ==
    /\ req[r].pc = "l68"
    /\ \/ Set(r, AntiwordReturn(req[r], ""))
       \/ Set(r, Raise(req[r], "l68"))
    /\ UNCHANGED <<MAX_FILE_SIZE, API_KEY, engines, files>>

\* Line 144: "Fallback Antiword funcionou".
Log144(r) ==
    /\ req[r].pc = "l144"
    /\ \/ Set(r, [req[r] EXCEPT !.pc = "l148"])
       \/ Set(r, Raise(req[r], "l144"))
    /\ UNCHANGED <<MAX_FILE_SIZE, API_KEY, engines, files>>

\* Lines 148-152 and 47-52: step 4, OCR over the raw bytes.
Ocr(r) ==
    /\ req[r].pc = "l148"
    /\ \/ /\ ~NeedsOcr(req[r].is_image, req[r].markdown)
          /\ Set(r, [req[r] EXCEPT !.pc = "l162"])
       \/ /\ NeedsOcr(req[r].is_image, req[r].markdown)
          /\ \E o \in EngineOutcomes("ocr", [exists |-> TRUE, data |-> req[r].contents]) :
               LET g == [req[r] EXCEPT !.calls = Append(@, Call("ocr", o))]
               IN  Set(r, IF o.kind = "raise"
                          THEN [g EXCEPT !.pc = "l54"]
                          ELSE [ApplyOcr(g, Strip(o.out)) EXCEPT !.pc = "l162"])
    /\ UNCHANGED <<MAX_FILE_SIZE, API_KEY, engines, files>>

\* Lines 53-55: the handler of run_ocr logs, then returns "".
Log54(r) ==
    /\ req[r].pc = "l54"
    /\ \/ Set(r, [ApplyOcr(req[r], "") EXCEPT !.pc = "l162"])
       \/ Set(r, Raise(req[r], "l54"))
    /\ UNCHANGED <<MAX_FILE_SIZE, API_KEY, engines, files>>

\* Lines 154-160: the handler of the waterfall's try.
Except(r) ==
    /\ req[r].pc = "l154"
    /\ Set(r, [req[r] EXCEPT !.pc = "l162", !.raising = ~req[r].is_image])
    /\ UNCHANGED <<MAX_FILE_SIZE, API_KEY, engines, files>>

\* Lines 161-166: the temporary file is removed if it exists; a failing
\* os.remove is swallowed.  A pending HTTPException then leaves the function.
Finally(r) ==
    /\ req[r].pc = "l162"
    /\ \E removed \in IF req[r].tmp_path \in DOMAIN files THEN {1, 0} ELSE {0} :
          /\ files' = IF removed = 1 THEN RemoveFile(req[r].tmp_path) ELSE files
          /\ IF req[r].raising
             THEN Set(r, [req[r] EXCEPT !.pc = "done", !.removes = @ + removed,
                                       !.response = HTTPError(500)])
             ELSE Set(r, [req[r] EXCEPT !.pc = "l168", !.removes = @ + removed])
    /\ UNCHANGED <<MAX_FILE_SIZE, API_KEY, engines>>

\* Lines 168-181.
Finish(r) ==
    /\ req[r].pc = "l168"
    /\ IF req[r].markdown = ""
       THEN Set(r, [req[r] EXCEPT !.pc = "done", !.response = HTTPError(422)])
       ELSE Set(r, [req[r] EXCEPT !.pc = "done", !.response = Result(req[r])])
    /\ UNCHANGED <<MAX_FILE_SIZE, API_KEY, engines, files>>

Next ==
    \E r \in {1} :
        \/ Request(r)
        \/ CheckEmpty(r)
        \/ CheckSize(r)
        \/ Classify(r)
        \/ MkTemp(r)
        \/ Primary(r)
        \/ Log129(r)
        \/ PandocDoc(r)
        \/ PandocAuto(r)
        \/ Log93(r)
        \/ Log137(r)
        \/ Antiword(r)
        \/ Log68(r)
        \/ Log144(r)
        \/ Ocr(r)
        \/ Log54(r)
        \/ Except(r)
        \/ Finally(r)
        \/ Finish(r)

Spec == Init /\ [][Next]_vars

----------------------------------------------------------------------------
(* Two requests in flight at once (two worker processes over one temporary  *)
(* directory), with engines that are functions of their input.              *)

UploadContents == {Bytes(n) : n \in 1..MaxFileSize}

UploadFilenames == {"a.doc", "a.png"}

UploadMimetypes == {"", "image/png"}

\* perform_conversion is called with one of a few uploads.
Upload(r) ==
    /\ req[r].pc = "idle"
    /\ \E c \in UploadContents, fn \in UploadFilenames, mt \in UploadMimetypes :
           Set(r, [req[r] EXCEPT !.pc = "l98", !.contents = c,
                                 !.filename = fn, !.mimetype = mt])
    /\ UNCHANGED <<MAX_FILE_SIZE, API_KEY, engines, files>>

InitPair ==
    /\ MAX_FILE_SIZE \in 0..MaxFileSize
    /\ API_KEY = None
    /\ engines = ByLength
    /\ files = <<>>
    /\ req = [r \in {1, 2} |-> Idle]

NextPair ==
    \E r \in {1, 2} :
        \/ Upload(r)
        \/ CheckEmpty(r)
        \/ CheckSize(r)
        \/ Classify(r)
        \/ MkTemp(r)
        \/ Primary(r)
        \/ Log129(r)
        \/ PandocDoc(r)
        \/ PandocAuto(r)
        \/ Log93(r)
        \/ Log137(r)
        \/ Antiword(r)
        \/ Log68(r)
        \/ Log144(r)
        \/ Ocr(r)
        \/ Log54(r)
        \/ Except(r)
        \/ Finally(r)
        \/ Finish(r)

SpecPair == InitPair /\ [][NextPair]_vars

----------------------------------------------------------------------------
(* The endpoints, lines 183-210: one request through /convert or            *)
(* /convert-base64, the service started with or without API_KEY.            *)

\* Lines 188 and 199.
UnauthorizedOnlyIfSent(x_api_key) ==
    Truthy(API_KEY) /\ x_api_key.set /\ x_api_key # API_KEY

Unauthorized(x_api_key) == Truthy(API_KEY) /\ x_api_key # API_KEY

\* The endpoint's frame once the header is bound.
Bound(r, endpoint, x_api_key) ==
    [req[r] EXCEPT !.endpoint = endpoint, !.x_api_key = x_api_key]

\* Lines 184-192: /convert.
Convert(r) ==
    /\ req[r].pc = "idle"
    /\ \E x_api_key \in RequestKeys, c \in Contents,
          fn \in UploadFilenames, mt \in UploadMimetypes :
           LET f == Bound(r, "convert", x_api_key)
           IN  IF Unauthorized(x_api_key)
               THEN Set(r, [f EXCEPT !.pc = "done", !.response = HTTPError(401)])
               ELSE Set(r, [f EXCEPT !.pc = "l98", !.contents = c,
                                     !.filename = fn, !.mimetype = mt])
    /\ UNCHANGED <<MAX_FILE_SIZE, API_KEY, engines, files>>

Base64Alphabet ==
    "ABCDEFGHIJKLMNOPQRSTUVWXYZabcdefghijklmnopqrstuvwxyz0123456789+/"

Count(s, chars) ==
    Cardinality({i \in 1..Len(s) : \E j \in 1..Len(chars) : CharAt(s, i) = CharAt(chars, j)})

\* str.find(c) as a 1-based index, 0 when c does not occur.
Find(s, c) ==
    LET at == {i \in 1..Len(s) : CharAt(s, i) = c}
    IN  IF at = {} THEN 0 ELSE CHOOSE i \in at : \A j \in at : i <= j

\* Lines 204-205: b64_str.split(",")[1] when b64_str has a comma.
AfterComma(s) ==
    LET i    == Find(s, ",")
        rest == SubSeq(s, i + 1, Len(s))
        j    == Find(rest, ",")
    IN  IF i = 0 THEN s ELSE IF j = 0 THEN rest ELSE SubSeq(rest, 1, j - 1)

\* base64.encodebytes of n zero bytes, without the newline.
RECURSIVE Base64Zeros(_)
Base64Zeros(n) ==
    CASE n = 0 -> ""
      [] n = 1 -> "AA=="
      [] n = 2 -> "AAA="
      [] OTHER -> "AAAA" \o Base64Zeros(n - 3)

\* Line 206: base64.b64decode(s) of a string padded at its end, if at all:
\* characters outside the alphabet are dropped, every four characters give
\* three bytes, two characters and "==" give one, three and "=" give two, and
\* anything else is an error.  The bytes are told apart by their number only.
b64decode(s) ==
    LET d == Count(s, Base64Alphabet)
        e == Count(s, "=")
    IN  CASE d % 4 = 0            -> [ok |-> TRUE, contents |-> Bytes(3 * (d \div 4))]
          [] d % 4 = 2 /\ e >= 2 -> [ok |-> TRUE, contents |-> Bytes(3 * (d \div 4) + 1)]
          [] d % 4 = 3 /\ e >= 1 -> [ok |-> TRUE, contents |-> Bytes(3 * (d \div 4) + 2)]
          [] OTHER                -> [ok |-> FALSE, contents |-> <<>>]

\* base64_content: the encodings of the contents, a data URL, a string with
\* no base64 character, a truncated and an unpadded encoding.
Base64Strings ==
    {Base64Zeros(n) : n \in 0..(MaxFileSize + 1)}
        \cup {"data:image/png;base64,AA==", "!", "A", "AA"}

\* Lines 195-210: /convert-base64.
ConvertBase64(r) ==
    /\ req[r].pc = "idle"
    /\ \E x_api_key \in RequestKeys, b64 \in Base64Strings,
          fn \in UploadFilenames, mt \in UploadMimetypes :
           LET f       == Bound(r, "convert_base64", x_api_key)
               decoded == b64decode(AfterComma(b64))
           IN  IF Unauthorized(x_api_key)
               THEN Set(r, [f EXCEPT !.pc = "done", !.response = HTTPError(401)])
               ELSE IF ~decoded.ok
               THEN Set(r, [f EXCEPT !.pc = "done", !.filename = fn, !.mimetype = mt,
                                     !.response = HTTPError(400)])
               ELSE Set(r, [f EXCEPT !.pc = "l98", !.contents = decoded.contents,
                                     !.filename = fn, !.mimetype = mt])
    /\ UNCHANGED <<MAX_FILE_SIZE, API_KEY, engines, files>>

InitTransport ==
    /\ MAX_FILE_SIZE \in 0..MaxFileSize
    /\ API_KEY \in ApiKeys
    /\ engines = ByLength
    /\ files = <<>>
    /\ req = [r \in {1} |-> Idle]

NextTransport ==
    \E r \in {1} :
        \/ Convert(r)
        \/ ConvertBase64(r)
        \/ CheckEmpty(r)
        \/ CheckSize(r)
        \/ Classify(r)
        \/ MkTemp(r)
        \/ Primary(r)
        \/ Log129(r)
        \/ PandocDoc(r)
        \/ PandocAuto(r)
        \/ Log93(r)
        \/ Log137(r)
        \/ Antiword(r)
        \/ Log68(r)
        \/ Log144(r)
        \/ Ocr(r)
        \/ Log54(r)
        \/ Except(r)
        \/ Finally(r)
        \/ Finish(r)

SpecTransport == InitTransport /\ [][NextTransport]_vars

----------------------------------------------------------------------------
(* What a request's history says.                                           *)

Idx(f) == 1..Len(f.calls)

Invoked(f, e) == \E i \in Idx(f) : f.calls[i].engine = e

\* The trimmed text an invocation handed back: nothing on a falsy result, a
\* non-zero exit code or an exception.
Yield(c) == c.text

\* The method tag of the engine an invocation belongs to.
Tag(c) == IF c.engine \in {"pandoc_doc", "pandoc_auto"} THEN "pandoc" ELSE c.engine

Done(f) == f.pc = "done"

Returned(f) == Done(f) /\ f.response.kind = "result"

Failed(f, status) ==
    Done(f) /\ f.response.kind = "error" /\ f.response.status = status

\* The request passed the checks of lines 98-105.
PassesPreconditions(f) ==
    f.pc # "idle" /\ Len(f.contents) > 0 /\ Len(f.contents) <= MAX_FILE_SIZE

\* The legacy Word classification, from the lower-cased extension of line
\* 107 and the declared media type (of a request past line 107).
LegacyWordInput(f) == f.ext = ".doc" \/ f.mimetype = "application/msword"

\* An exception reached the handler of line 154.
FaultReachedOrchestrator(f) == f.fault \in {"l124", "l129", "l93", "l137", "l68", "l144", "l54"}

----------------------------------------------------------------------------
(* C1: a request whose content has length 0 ends with HTTP 400 at line 99,  *)
(* whatever its filename and media type, and no engine is invoked at any    *)
(* point of it.                                                             *)
C1_EmptyInput ==
    \A r \in Reqs :
        (req[r].pc # "idle" /\ Len(req[r].contents) = 0)
            => /\ req[r].calls = <<>>
               /\ req[r].tmp_path = 0
               /\ req[r].pc = "l98" \/ Failed(req[r], 400)

C1_Witness ==
    \E r \in Reqs :
        /\ Failed(req[r], 400)
        /\ Len(req[r].contents) = 0
        /\ req[r].filename = "a.png"
        /\ req[r].mimetype = "image/png"

(* C2: a request whose content is longer than MAX_FILE_SIZE ends with HTTP   *)
(* 413 before any engine is invoked; a non-empty request whose length is     *)
(* exactly MAX_FILE_SIZE is not rejected with 413 and goes on to line 107.   *)
C2_TooLarge ==
    \A r \in Reqs :
        LET f == req[r] IN
        /\ (f.pc \notin {"idle", "l98", "l101"} /\ Len(f.contents) > MAX_FILE_SIZE)
              => Failed(f, 413) /\ f.calls = <<>> /\ f.tmp_path = 0
        /\ (f.pc \notin {"idle", "l98", "l101"} /\ Len(f.contents) > 0
                /\ Len(f.contents) = MAX_FILE_SIZE)
              => ~Failed(f, 413) /\ ~Failed(f, 400)

C2_Witness ==
    \E r \in Reqs :
        /\ Failed(req[r], 413)
        /\ Len(req[r].contents) = MAX_FILE_SIZE + 1
        /\ MAX_FILE_SIZE > 0

(* C3: for a request classified as legacy Word (lower-cased extension .doc,  *)
(* or media type application/msword) MarkItDown is never invoked, whatever   *)
(* the later engines return.                                                 *)
C3_LegacyWordSkipsPrimary ==
    \A r \in Reqs : Invoked(req[r], "markitdown") => ~LegacyWordInput(req[r])

C3_Witness ==
    \E r \in Reqs :
        /\ Returned(req[r])
        /\ req[r].filename = "a.txt"
        /\ req[r].mimetype = "application/msword"
        /\ Invoked(req[r], "pandoc_doc")
        /\ Invoked(req[r], "antiword")

----------------------------------------------------------------------------
(* C4.                                                                       *)

WordSpecificSucceeded(f) ==
    \E i \in Idx(f) : f.calls[i].engine = "pandoc_doc" /\ Yield(f.calls[i]) # ""

WordSpecificFailed(f) ==
    \E i \in Idx(f) : f.calls[i].engine = "pandoc_doc" /\ Yield(f.calls[i]) = ""

AntiwordSucceeded(f) ==
    \E i \in Idx(f) : f.calls[i].engine = "antiword" /\ Yield(f.calls[i]) # ""

OcrSucceeded(f) ==
    \E i \in Idx(f) : f.calls[i].engine = "ocr" /\ Yield(f.calls[i]) # ""

(* C4 as stated: for a legacy Word input, the result's method is pandoc when *)
(* the Word-specific invocation succeeded, and antiword when it failed and   *)
(* the direct extractor succeeded.                                           *)
C4_AsStated ==
    \A r \in Reqs :
        LET f == req[r] IN
        (Returned(f) /\ LegacyWordInput(f))
            => /\ WordSpecificSucceeded(f) => f.response.method = "pandoc"
               /\ (WordSpecificFailed(f) /\ AntiwordSucceeded(f))
                      => f.response.method = "antiword"

(* C4, amended: the same, except when the input is also classified as an     *)
(* image and OCR, run because the accepted text is shorter than 10           *)
(* characters, yields non-empty text: the method is then ocr.                *)
C4_LegacyWordMethod ==
    \A r \in Reqs :
        LET f == req[r] IN
        (Returned(f) /\ LegacyWordInput(f))
            => IF OcrSucceeded(f)
               THEN /\ f.is_image
                    /\ f.response.method = "ocr"
                    /\ \A i \in Idx(f) : f.calls[i].engine # "ocr"
                           => Len(Yield(f.calls[i])) < MinUsableLen
               ELSE /\ WordSpecificSucceeded(f) => f.response.method = "pandoc"
                    /\ (WordSpecificFailed(f) /\ AntiwordSucceeded(f))
                           => f.response.method = "antiword"

C4_Witness ==
    \E r \in Reqs :
        /\ Returned(req[r])
        /\ LegacyWordInput(req[r])
        /\ WordSpecificFailed(req[r])
        /\ AntiwordSucceeded(req[r])
        /\ req[r].response.method = "antiword"

----------------------------------------------------------------------------
(* C5: for an input that is neither legacy Word nor an image and passes the  *)
(* preconditions, when MarkItDown yields text that is non-empty once         *)
(* trimmed, the request returns method markitdown with exactly that trimmed  *)
(* text, and MarkItDown's is the only engine invocation of the request.      *)
C5_PrimarySuccess ==
    \A r \in Reqs :
        LET f == req[r] IN
        (/\ PassesPreconditions(f)
         /\ ~f.is_legacy_word /\ ~f.is_image
         /\ \E i \in Idx(f) : f.calls[i].engine = "markitdown" /\ Yield(f.calls[i]) # "")
            => /\ Len(f.calls) = 1
               /\ f.response.kind \in {"none", "result"}
               /\ Done(f) => /\ Returned(f)
                             /\ f.response.method = "markitdown"
                             /\ f.response.markdown = Strip(f.calls[1].out)
                             /\ f.response.markdown # ""

C5_Witness ==
    \E r \in Reqs :
        /\ Returned(req[r])
        /\ ~req[r].is_legacy_word /\ ~req[r].is_image
        /\ Len(req[r].calls) = 1
        /\ req[r].calls[1].engine = "markitdown"
        /\ req[r].calls[1].out = " hi\n"
        /\ req[r].response.markdown = "hi"

----------------------------------------------------------------------------
(* C6: for an image input where every non-OCR invocation yielded fewer than  *)
(* 10 characters once trimmed (none included) and OCR yielded non-empty      *)
(* trimmed text, the result's markdown is the OCR text and its method is     *)
(* ocr, whatever shorter text and method an earlier engine had set.          *)
C6_OcrOverridesShort ==
    \A r \in Reqs :
        LET f == req[r] IN
        (/\ Done(f) /\ PassesPreconditions(f) /\ f.is_image
         /\ \A i \in Idx(f) : f.calls[i].engine # "ocr"
                => Len(Yield(f.calls[i])) < MinUsableLen
         /\ OcrSucceeded(f))
            => /\ Returned(f)
               /\ f.response.method = "ocr"
               /\ \E i \in Idx(f) : /\ f.calls[i].engine = "ocr"
                                    /\ f.response.markdown = Strip(f.calls[i].out)

C6_Witness ==
    \E r \in Reqs :
        /\ Returned(req[r])
        /\ req[r].is_image
        /\ \E i \in Idx(req[r]) : /\ req[r].calls[i].engine = "markitdown"
                                  /\ Len(Yield(req[r].calls[i])) = 9
        /\ req[r].response.method = "ocr"
        /\ req[r].response.markdown = "scanned"

----------------------------------------------------------------------------
(* C7: for an image input where a non-OCR invocation yielded 10 or more      *)
(* characters once trimmed (exactly 10 included), OCR is not run and the     *)
(* result carries that engine's text and method.                             *)
C7_OcrKeepsUsable ==
    \A r \in Reqs :
        LET f == req[r] IN
        \A i \in Idx(f) :
            (/\ f.is_image
             /\ f.calls[i].engine # "ocr"
             /\ Len(Yield(f.calls[i])) >= MinUsableLen)
                => /\ ~Invoked(f, "ocr")
                   /\ f.response.kind \in {"none", "result"}
                   /\ Done(f) => /\ Returned(f)
                                 /\ f.response.markdown = Yield(f.calls[i])
                                 /\ f.response.method = Tag(f.calls[i])

C7_Witness ==
    \E r \in Reqs :
        /\ Returned(req[r])
        /\ req[r].is_image
        /\ \E i \in Idx(req[r]) : Len(Yield(req[r].calls[i])) = MinUsableLen
        /\ Len(req[r].response.markdown) = MinUsableLen
        /\ req[r].response.method = "markitdown"

----------------------------------------------------------------------------
(* C8: a request that passed the preconditions and met no fault (of the     *)
(* temporary file, or reaching line 154) ends with HTTP 422 if and only if  *)
(* every engine invocation of the request yielded empty trimmed text;       *)
(* otherwise it returns a result whose markdown is non-empty.               *)
C8_AllEnginesFailed ==
    \A r \in Reqs :
        LET f == req[r] IN
        (Done(f) /\ PassesPreconditions(f) /\ f.fault = "none")
            => /\ Failed(f, 422) <=> \A i \in Idx(f) : Yield(f.calls[i]) = ""
               /\ ~Failed(f, 422) => Returned(f) /\ f.response.markdown # ""

C8_Witness ==
    \E r \in Reqs :
        /\ Failed(req[r], 422)
        /\ req[r].fault = "none"
        /\ req[r].is_image
        /\ Invoked(req[r], "markitdown")
        /\ Invoked(req[r], "pandoc_auto")
        /\ Invoked(req[r], "ocr")

----------------------------------------------------------------------------
(* C9.                                                                       *)

EngineRaised(f, i) ==
    /\ f.calls[i].kind = "raise"
    /\ f.calls[i].engine \in {"markitdown", "pandoc_doc", "pandoc_auto", "antiword"}

\* The step that follows an engine of steps 1-3 that returned empty text.
NextAfterEmpty(f, engine) ==
    CASE engine = "markitdown" -> "pandoc_doc"
      [] engine \in {"pandoc_doc", "pandoc_auto"} ->
            IF f.is_legacy_word THEN "antiword"
            ELSE IF f.is_image THEN "ocr" ELSE "none"
      [] engine = "antiword" -> IF f.is_image THEN "ocr" ELSE "none"

----------------------------------------------------------------------------
(* C10, as stated: a fault that reaches line 154 is surfaced as HTTP 500     *)
(* exactly when the input is not an image; for an image the fault is not     *)
(* surfaced and OCR is invoked after the fault.                              *)
C10_AsStated ==
    \A r \in Reqs :
        LET f == req[r] IN
        (Done(f) /\ FaultReachedOrchestrator(f))
            => /\ Failed(f, 500) <=> ~f.is_image
               /\ f.is_image
                     => \E i \in Idx(f) : i > f.faultCalls /\ f.calls[i].engine = "ocr"

----------------------------------------------------------------------------
\* The temporary files request r created that are still on disk.
Leftover(r) == {p \in DOMAIN files : files[p].owner = r}

(* C11, as stated: a terminated request that created a temporary file has    *)
(* removed it, exactly once, on every exit path (a failure while writing     *)
(* the content included), and a request rejected by the preconditions        *)
(* created none.                                                             *)
C11_AsStated ==
    \A r \in Reqs :
        LET f == req[r] IN
        Done(f) => /\ f.tmp_file # 0 => Leftover(r) = {} /\ f.removes = 1
                   /\ (Failed(f, 400) \/ Failed(f, 413)) => f.tmp_file = 0

----------------------------------------------------------------------------
(* C13, as stated: whenever the Word-specific pandoc run ends with empty     *)
(* output (an exit code 0 with empty output included), the run with format   *)
(* detection is tried next.                                                  *)
C13_AsStated ==
    \A r \in Reqs :
        LET f == req[r] IN
        \A i \in Idx(f) :
            (/\ f.calls[i].engine = "pandoc_doc"
             /\ f.calls[i].kind \in {"exit0", "nonzero"}
             /\ Yield(f.calls[i]) = ""
             /\ f.pc # "l85")
                => i < Len(f.calls) /\ f.calls[i + 1].engine = "pandoc_auto"

----------------------------------------------------------------------------
(* C14.                                                                      *)

Rank(engine) ==
    CASE engine = "markitdown"  -> 1
      [] engine = "pandoc_doc"  -> 2
      [] engine = "pandoc_auto" -> 2
      [] engine = "antiword"    -> 3
      [] engine = "ocr"         -> 4

\* Engines run in the order MarkItDown, pandoc, antiword, OCR, each at most
\* once; within pandoc the Word-specific run precedes the generic one.
InOrder(f) ==
    \A i, j \in Idx(f) :
        i < j => \/ Rank(f.calls[i].engine) < Rank(f.calls[j].engine)
                 \/ /\ f.calls[i].engine = "pandoc_doc"
                    /\ f.calls[j].engine = "pandoc_auto"
                    /\ j = i + 1

\* Step 1 produced accepted text.
PrimaryAccepted(f) ==
    \E i \in Idx(f) : f.calls[i].engine = "markitdown" /\ Yield(f.calls[i]) # ""

\* The request is past the try block of lines 120-152.
PastWaterfall(f) == f.tmp_path # 0 /\ f.pc \in {"l162", "l168", "done"}

----------------------------------------------------------------------------
(* C15.                                                                      *)

\* Some invocation before antiword's turn produced accepted text.
EarlierAccepted(f) ==
    \E i \in Idx(f) : Rank(f.calls[i].engine) < 3 /\ Yield(f.calls[i]) # ""

----------------------------------------------------------------------------
\* The image classification, from the lower-cased extension of line 107 and
\* the declared media type.
ImageInput(f) ==
    \/ f.ext \in {".png", ".jpg", ".jpeg", ".tiff", ".bmp", ".gif"}
    \/ (Len(f.mimetype) >= 6 /\ SubSeq(f.mimetype, 1, 6) = "image/")

----------------------------------------------------------------------------
(* C18: a returned result has non-empty markdown, one of the four engine     *)
(* tags as method (never "unknown"), the trimmed output of an invocation of  *)
(* that engine as markdown, the content length as size_bytes, and the        *)
(* request's filename and media type unchanged.                              *)
C18_ResultFields ==
    \A r \in Reqs :
        LET f == req[r] IN
        Returned(f)
            => /\ f.response.markdown # ""
               /\ f.response.method \in {"markitdown", "pandoc", "antiword", "ocr"}
               /\ \E i \in Idx(f) :
                      /\ Tag(f.calls[i]) = f.response.method
                      /\ f.calls[i].kind \in {"ok", "exit0"}
                      /\ f.response.markdown = Strip(f.calls[i].out)
               /\ f.response.size_bytes = Len(f.contents)
               /\ f.response.filename = f.filename
               /\ f.response.content_type = f.mimetype

C18_Witness ==
    \E r \in Reqs :
        /\ Returned(req[r])
        /\ req[r].response.method = "pandoc"
        /\ req[r].response.markdown = "123456789"
        /\ req[r].response.size_bytes = 2
        /\ req[r].response.filename = "A.DOC"
        /\ req[r].response.content_type = "image/x"

----------------------------------------------------------------------------
(* C19, as stated: a terminated request has exactly one outcome, a result    *)
(* or one of the classified errors (400 EmptyInput, 413 TooLarge, 422        *)
(* AllEnginesFailed, 500 ConversionFaulted).                                 *)
C19_AsStated ==
    \A r \in Reqs :
        LET f == req[r] IN
        /\ Done(f) => \/ Returned(f)
                      \/ \E status \in {400, 413, 422, 500} : Failed(f, status)
        /\ ~Done(f) => f.response = NoResponse

----------------------------------------------------------------------------
(* Requests side by side (SpecPair).                                         *)

\* The request is between the creation of its temporary file and the finally
\* block that removes it.
InFlight(f) ==
    f.pc \in {"l122", "l129", "l132", "l85", "l93", "l137", "l140", "l68", "l144",
              "l148", "l54", "l154", "l162"}

\* No exception other than an engine's own was raised during the request.
FaultFree(f) == f.fault = "none"

\* What engine e, a function of its input, hands back for contents c.
TextOf(e, c) == Call(e, CHOOSE o \in engines[e][Len(c)] : TRUE).text

\* The waterfall of a request run on its own with no fault: the accepted text
\* and its tag after each step.
AloneStep1(f) ==
    LET t == IF f.is_legacy_word THEN "" ELSE TextOf("markitdown", f.contents)
    IN  IF t # "" THEN <<t, "markitdown">> ELSE <<"", "unknown">>

AloneStep2(f) ==
    LET prev == AloneStep1(f)
        doc  == CHOOSE o \in engines["pandoc_doc"][Len(f.contents)] : TRUE
        t    == IF doc.kind = "nonzero" THEN TextOf("pandoc_auto", f.contents)
                ELSE TextOf("pandoc_doc", f.contents)
    IN  IF prev[1] # "" THEN prev ELSE IF t # "" THEN <<t, "pandoc">> ELSE prev

AloneStep3(f) ==
    LET prev == AloneStep2(f)
        t    == TextOf("antiword", f.contents)
    IN  IF prev[1] = "" /\ f.is_legacy_word /\ t # "" THEN <<t, "antiword">> ELSE prev

AloneStep4(f) ==
    LET prev == AloneStep3(f)
        t    == TextOf("ocr", f.contents)
    IN  IF f.is_image /\ Len(prev[1]) < MinUsableLen /\ t # "" THEN <<t, "ocr">> ELSE prev

\* The outcome of the request run on its own with no fault.
Alone(f) ==
    IF Len(f.contents) = 0 THEN HTTPError(400)
    ELSE IF Len(f.contents) > MAX_FILE_SIZE THEN HTTPError(413)
    ELSE IF AloneStep4(f)[1] = "" THEN HTTPError(422)
    ELSE [kind |-> "result", status |-> 200, filename |-> f.filename,
          content_type |-> f.mimetype, size_bytes |-> Len(f.contents),
          markdown |-> AloneStep4(f)[1], method |-> AloneStep4(f)[2]]

SameInputs(f, g) ==
    f.contents = g.contents /\ f.filename = g.filename /\ f.mimetype = g.mimetype

(* C12: with engines that answer the same for the same input, two requests   *)
(* with identical contents, filename and media type, neither hit by a fault  *)
(* outside the engines, end with the same outcome: the same method and       *)
(* markdown, or the same error.                                              *)
C12_Idempotent ==
    \A r, s \in Reqs :
        (/\ r # s
         /\ Done(req[r]) /\ Done(req[s])
         /\ FaultFree(req[r]) /\ FaultFree(req[s])
         /\ SameInputs(req[r], req[s]))
            => req[r].response = req[s].response

C12_Witness ==
    /\ Returned(req[1]) /\ Returned(req[2])
    /\ FaultFree(req[1]) /\ FaultFree(req[2])
    /\ SameInputs(req[1], req[2])
    /\ req[1].filename = "a.doc"
    /\ req[1].mimetype = "image/png"
    /\ req[1].response.method = "ocr"
    /\ req[1].tmp_path # req[2].tmp_path

\* Every in-flight request holds a temporary file of its own, with its own
\* contents; a finished fault-free request has the outcome it has alone.
Isolated ==
    /\ \A r, s \in Reqs :
           (r # s /\ InFlight(req[r]) /\ InFlight(req[s]))
               => req[r].tmp_path # req[s].tmp_path
    /\ \A r \in Reqs :
           InFlight(req[r])
               => /\ req[r].tmp_path \in DOMAIN files
                  /\ files[req[r].tmp_path] = [owner |-> r, data |-> req[r].contents]
    /\ \A r \in Reqs :
           (Done(req[r]) /\ FaultFree(req[r])) => req[r].response = Alone(req[r])

\* A step changes or removes a temporary file only if it is a step of the
\* request that created it, and no step changes the configuration.
OwnFileOnly ==
    /\ \A p \in DOMAIN files :
           (p \notin DOMAIN files' \/ files'[p] # files[p])
               => req'[files[p].owner] # req[files[p].owner]
    /\ MAX_FILE_SIZE' = MAX_FILE_SIZE
    /\ API_KEY' = API_KEY

(* C17: under every interleaving of two requests, the in-flight requests     *)
(* hold distinct temporary files, each holding its own request's contents;   *)
(* only the request that created a file changes or removes it; no step       *)
(* changes MAX_FILE_SIZE or API_KEY; and a request's outcome is the one it   *)
(* has when run alone.                                                       *)
C17_Isolation == []Isolated /\ [][OwnFileOnly]_vars

C17_Witness ==
    /\ req[1].pc = "l140"
    /\ req[2].pc = "l162"
    /\ req[1].contents # req[2].contents
    /\ req[1].tmp_path = 2
    /\ req[2].tmp_path = 1
    /\ Len(req[1].calls) = 2
    /\ Len(req[2].calls) = 3

----------------------------------------------------------------------------
(* The access key (SpecTransport).                                           *)

\* An access key is configured: API_KEY is set and not empty.
KeyConfigured == API_KEY.set /\ API_KEY.value # ""

\* The endpoint has bound the request's header.
Arrived(f) == f.endpoint \in {"convert", "convert_base64"}

\* perform_conversion was entered for the request.
CoreInvoked(f) ==
    \/ f.pc \notin {"idle", "done"}
    \/ f.tmp_file # 0 \/ f.calls # <<>> \/ f.fault # "none"
    \/ Returned(f) \/ Failed(f, 413) \/ Failed(f, 422) \/ Failed(f, 500)
    \/ (Failed(f, 400) /\ f.endpoint = "convert")

(* C20: on both endpoints, when an access key is configured and the          *)
(* request's key is absent or differs from it, the request ends with 401     *)
(* and the core is not invoked: no temporary file, no engine run; when no    *)
(* access key is configured, or the keys agree, no request ends with 401.    *)
C20_Unauthorized ==
    \A r \in Reqs :
        LET f == req[r] IN
        Arrived(f)
            => /\ (KeyConfigured /\ f.x_api_key # API_KEY)
                      => /\ Failed(f, 401)
                         /\ ~CoreInvoked(f)
                         /\ f.tmp_file = 0 /\ f.calls = <<>>
                         /\ \A p \in DOMAIN files : files[p].owner # r
               /\ (~KeyConfigured \/ f.x_api_key = API_KEY) => ~Failed(f, 401)

C20_Witness ==
    \E r \in Reqs :
        /\ API_KEY = Some("k1")
        /\ req[r].endpoint = "convert_base64"
        /\ req[r].x_api_key = None
        /\ Failed(req[r], 401)

====
